---- MODULE Spec2Model ----
(***************************************************************************)
(* Model of benchmark.py: the ThreadedCrawler (crawl_single and            *)
(* crawl_threaded), the AsyncCrawler (worker and crawl) and the benchmark  *)
(* driver (time_fn and main).                                              *)
(*                                                                         *)
(* The network and the HTML parser are replaced by a deterministic stub:   *)
(* a link graph gives, for every page, the sequence of hrefs of its <a>    *)
(* tags in document order, and a set of failing URLs gives the URLs whose  *)
(* fetch ends in the except branch (empty string).                         *)
(***************************************************************************)
EXTENDS Integers, Sequences, FiniteSets, TLC

\* ------------------------------------------------------------------ bounds

\* Largest page budget (max_pages) tried.
MaxBudget == 4

\* The max_workers / concurrency argument of the runs.
MaxWorkers == 2

\* The repeats argument of time_fn.
Repeats == 2

\* ------------------------------------------------------------------ inputs

\* Absolute http URLs of the stubbed web.
URLs == {"a", "b", "c"}

\* The seed URL handed to both constructors.
seed == "a"

\* An href without an http scheme, and a relative href.
MailHref == "mailto:x"
RelHref == "/c"

\* str.startswith("http") on the hrefs of the stub.
StartsWithHttp(href) == href \in URLs

\* urllib.parse.urljoin on the hrefs of the stub: an href with a scheme is
\* kept, a relative one is resolved against the base.
urljoin(url, href) == IF href = RelHref THEN "c" ELSE href

\* The link graphs tried: page |-> hrefs of its <a> tags, in document order.
GraphTree == [u \in URLs |-> IF u = "a" THEN <<"b", "c">> ELSE <<>>]
GraphSelfLoop == [u \in URLs |-> IF u = "a" THEN <<"a", "b">> ELSE <<>>]
GraphTwice == [u \in URLs |-> IF u = "a" THEN <<"b", "b", "c">> ELSE <<>>]
GraphCycle ==
  [u \in URLs |-> IF u = "a" THEN <<"b", "c">>
                  ELSE IF u = "b" THEN <<"c">> ELSE <<"a">>]
GraphMixed ==
  [u \in URLs |-> IF u = "a" THEN <<"b", MailHref, RelHref>>
                  ELSE IF u = "b" THEN <<"a">> ELSE <<"b">>]
\* The href lists a page of the generated graphs may hold.
LinkLists == {<<>>, <<"a", "b">>, <<"b", "c">>, <<"b", "b", "c">>}

\* The graphs named above and every graph whose pages hold one of the lists.
Graphs ==
  {GraphTree, GraphSelfLoop, GraphTwice, GraphCycle, GraphMixed}
    \cup [URLs -> LinkLists]

\* The empty string returned by fetch's except branch.
EmptyHtml == ""

VARIABLES
  graph,      \* the stub's link graph
  failing,    \* the URLs whose fetch fails
  max_pages,  \* the budget given to both constructors
  entry,      \* the entry point exercised: one crawl method, or main
  tc,         \* the ThreadedCrawler: queue, visited, pages_crawled
  ac,         \* the AsyncCrawler: queue, visited, pages
  strat,      \* the crawl function time_fn is repeating
  rep,        \* number of samples time_fn has appended to results
  pc,         \* position of the calling thread
  nxt,        \* the URL the calling thread has popped and not yet marked
  kick,       \* kickoff iterations of crawl_threaded still to run
  futures,    \* crawl_threaded's futures list (ids into fut)
  done,       \* the done set of the for loop of crawl_threaded
  fut,        \* every future submitted in this run, with its worker's state
  ready,      \* the event loop's ready queue of worker tasks
  aw,         \* the worker tasks of AsyncCrawler.crawl
  sem,        \* the value of the asyncio.Semaphore
  popLog,     \* the URLs popped (popleft) in the current run, in order
  start       \* queue length and counter when the current run was called

vars == <<graph, failing, max_pages, entry, tc, ac, strat, rep, pc, nxt,
          kick, futures, done, fut, ready, aw, sem, popLog, start>>

inputs == <<graph, failing, max_pages, entry>>
threadVars == <<nxt, kick, futures, done, fut>>
asyncVars == <<ready, aw, sem>>

\* ------------------------------------------------------------ constructors

\* ThreadedCrawler.__init__
ThreadedCrawlerInit == [queue |-> <<seed>>, visited |-> {}, pages_crawled |-> 0]

\* Mutant: the queue is seeded with two URLs.
AsyncCrawlerInitTwo == [queue |-> <<seed, "b">>, visited |-> {}, pages |-> 0]

\* AsyncCrawler.__init__
AsyncCrawlerInit == [queue |-> <<seed>>, visited |-> {}, pages |-> 0]

\* ---------------------------------------------------------- fetch and parse

\* ThreadedCrawler.fetch / AsyncCrawler.fetch: the page, or "" on any error.
\* A page is identified by its URL.
fetch(url) == IF url \in failing THEN EmptyHtml ELSE url

\* soup.find_all("a", href=True): the hrefs of a page, in document order.
find_all(html) == graph[html]

\* Mutant: the visited set is not consulted.
ParseCondAny(href, visited) == StartsWithHttp(href)

\* The condition of ThreadedCrawler.parse's loop body.
ParseCond(href, visited) == StartsWithHttp(href) /\ href \notin visited

\* ThreadedCrawler.parse's loop run without interruption: the queue after
\* the hrefs have been handled in order.
RECURSIVE parse(_, _, _)
parse(queue, hrefs, visited) ==
  IF hrefs = <<>> THEN queue
  ELSE parse(IF ParseCond(Head(hrefs), visited)
               THEN Append(queue, Head(hrefs)) ELSE queue,
             Tail(hrefs), visited)

\* AsyncCrawler.parse: as above after urljoin against the page's URL.
RECURSIVE aparse(_, _, _, _)
aparse(queue, url, hrefs, visited) ==
  IF hrefs = <<>> THEN queue
  ELSE aparse(IF ParseCond(urljoin(url, Head(hrefs)), visited)
                THEN Append(queue, urljoin(url, Head(hrefs))) ELSE queue,
              url, Tail(hrefs), visited)

\* ------------------------------------------------------------------- Init

Entries == {"crawl_single", "crawl_threaded", "crawl", "main"}

\* The strategy a caller of one crawl method runs; main starts with
\* crawl_single.
FirstStrat(e) == IF e = "main" THEN "crawl_single" ELSE e

Init ==
  /\ graph \in Graphs
  /\ failing \in SUBSET URLs
  /\ max_pages \in 1..MaxBudget
  /\ entry \in Entries
  /\ tc = ThreadedCrawlerInit
  /\ ac = AsyncCrawlerInit
  /\ strat = FirstStrat(entry)
  /\ rep = 0
  /\ pc = "call"
  /\ nxt = ""
  /\ kick = 0
  /\ futures = <<>>
  /\ done = {}
  /\ fut = <<>>
  /\ ready = <<>>
  /\ aw = <<>>
  /\ sem = 0
  /\ popLog = <<>>
  /\ start = [queue |-> 0, pages |-> 0]

\* ----------------------------------------------------------- crawl_single

\* Mutant: the budget test is off by one (<= for <).
SingleGuardLe == tc.queue # <<>> /\ tc.pages_crawled <= max_pages

\* The condition of crawl_single's while loop.
SingleGuard == tc.queue # <<>> /\ tc.pages_crawled < max_pages

\* time_fn calls crawl_single.
CallSingle ==
  /\ pc = "call" /\ strat = "crawl_single"
  /\ pc' = "single"
  /\ popLog' = <<>>
  /\ start' = [queue |-> Len(tc.queue), pages |-> tc.pages_crawled]
  /\ UNCHANGED <<inputs, tc, ac, strat, rep, threadVars, asyncVars>>

\* Mutant: a failed fetch abandons the pending URLs.
SingleBodyAbort(c, html) ==
  IF html # EmptyHtml
    THEN [c EXCEPT !.queue = parse(c.queue, find_all(html), c.visited),
                   !.pages_crawled = c.pages_crawled + 1]
    ELSE [c EXCEPT !.queue = <<>>]

\* The body of crawl_single's loop after the popleft and visited.add: a
\* non-empty page is parsed and counted, an empty one is skipped.
SingleBody(c, html) ==
  IF html # EmptyHtml
    THEN [c EXCEPT !.queue = parse(c.queue, find_all(html), c.visited),
                   !.pages_crawled = c.pages_crawled + 1]
    ELSE c

\* One iteration of crawl_single's while loop.
SingleStep ==
  /\ pc = "single" /\ SingleGuard
  /\ LET u == Head(tc.queue)
     IN /\ tc' = SingleBody([tc EXCEPT !.queue = Tail(tc.queue),
                                       !.visited = tc.visited \cup {u}],
                            fetch(u))
        /\ popLog' = Append(popLog, u)
  /\ UNCHANGED <<inputs, ac, strat, rep, pc, threadVars, asyncVars, start>>

\* crawl_single's loop ends and the elapsed time is returned.
SingleReturn ==
  /\ pc = "single" /\ ~SingleGuard
  /\ pc' = "returned"
  /\ UNCHANGED <<inputs, tc, ac, strat, rep, threadVars, asyncVars, popLog, start>>

\* --------------------------------------------------------- crawl_threaded

Min(m, n) == IF m < n THEN m ELSE n

\* Mutant: the loop ignores the budget.
ThreadedGuardAnyBudget == futures # <<>>

\* Mutant: the kickoff runs max_workers times whatever the queue holds.
KickoffMax(queue, max_workers) == max_workers

\* Mutant: the kickoff submits the whole queue.
KickoffAll(queue, max_workers) == Len(queue)

\* The number of kickoff iterations: range(min(len(self.queue), max_workers)).
KickoffCount(queue, max_workers) == Min(Len(queue), max_workers)

\* Mutant: the loop stops one page short of the budget.
ThreadedGuardShort == futures # <<>> /\ tc.pages_crawled + 1 < max_pages

\* The condition of crawl_threaded's while loop.
ThreadedGuard == futures # <<>> /\ tc.pages_crawled < max_pages

\* execu.submit(self.fetch_and_parse, url): a worker thread starts on url.
Submitted(u) == [url |-> u, st |-> "fetch", html |-> EmptyHtml, i |-> 0]

\* The futures of this run that have run to completion.
Finished == {f \in 1..Len(fut) : fut[f].st = "finished"}

\* Mutant: the collected future stays in the list.
RemoveNone(list, f) == list

\* list.remove on the futures list.
RECURSIVE Remove(_, _)
Remove(list, f) ==
  IF list = <<>> THEN <<>>
  ELSE IF Head(list) = f THEN Tail(list)
  ELSE <<Head(list)>> \o Remove(Tail(list), f)

Range(list) == {list[k] : k \in 1..Len(list)}

\* time_fn calls crawl_threaded: the futures list is created empty and the
\* range of the kickoff loop is evaluated.
CallThreaded ==
  /\ pc = "call" /\ strat = "crawl_threaded"
  /\ futures' = <<>> /\ fut' = <<>> /\ done' = {} /\ nxt' = ""
  /\ kick' = KickoffCount(tc.queue, MaxWorkers)
  /\ pc' = IF kick' > 0 THEN "kickoff" ELSE "loop"
  /\ popLog' = <<>>
  /\ start' = [queue |-> Len(tc.queue), pages |-> tc.pages_crawled]
  /\ UNCHANGED <<inputs, tc, ac, strat, rep, asyncVars>>

\* Kickoff: url = self.queue.popleft()
KickoffPop ==
  /\ pc = "kickoff"
  /\ nxt' = Head(tc.queue)
  /\ tc' = [tc EXCEPT !.queue = Tail(tc.queue)]
  /\ popLog' = Append(popLog, Head(tc.queue))
  /\ pc' = "kick_add"
  /\ UNCHANGED <<inputs, ac, strat, rep, kick, futures, done, fut, asyncVars,
                 start>>

\* Kickoff: self.visited.add(url); futures.append(execu.submit(...))
KickoffSubmit ==
  /\ pc = "kick_add"
  /\ tc' = [tc EXCEPT !.visited = tc.visited \cup {nxt}]
  /\ fut' = Append(fut, Submitted(nxt))
  /\ futures' = Append(futures, Len(fut) + 1)
  /\ nxt' = ""
  /\ kick' = kick - 1
  /\ pc' = IF kick' > 0 THEN "kickoff" ELSE "loop"
  /\ UNCHANGED <<inputs, ac, strat, rep, done, asyncVars, popLog, start>>

\* The while condition holds and wait(futures, FIRST_COMPLETED) returns the
\* futures that are done by then, at least one.
Wait ==
  /\ pc = "loop" /\ ThreadedGuard
  /\ Range(futures) \cap Finished # {}
  /\ done' = Range(futures) \cap Finished
  /\ pc' = "for"
  /\ UNCHANGED <<inputs, tc, ac, strat, rep, nxt, kick, futures, fut,
                 asyncVars, popLog, start>>

\* What one completed future adds to the counter (line 87).
Counted(html) == 1

\* One iteration of the for loop over done, up to the popleft: the future is
\* counted and removed and, if the queue is not empty, the next URL is popped.
Collect(f) ==
  /\ pc = "for" /\ f \in done
  /\ done' = done \ {f}
  /\ futures' = Remove(futures, f)
  /\ IF tc.queue # <<>>
       THEN /\ tc' = [tc EXCEPT !.pages_crawled = @ + Counted(fut[f].html),
                                !.queue = Tail(tc.queue)]
            /\ nxt' = Head(tc.queue)
            /\ popLog' = Append(popLog, Head(tc.queue))
            /\ pc' = "for_add"
       ELSE /\ tc' = [tc EXCEPT !.pages_crawled = @ + Counted(fut[f].html)]
            /\ nxt' = ""
            /\ popLog' = popLog
            /\ pc' = IF done' = {} THEN "loop" ELSE "for"
  /\ UNCHANGED <<inputs, ac, strat, rep, kick, fut, asyncVars, start>>

\* The rest of the iteration: self.visited.add(nxt) and the submit.
CollectSubmit ==
  /\ pc = "for_add"
  /\ tc' = [tc EXCEPT !.visited = tc.visited \cup {nxt}]
  /\ fut' = Append(fut, Submitted(nxt))
  /\ futures' = Append(futures, Len(fut) + 1)
  /\ nxt' = ""
  /\ pc' = IF done = {} THEN "loop" ELSE "for"
  /\ UNCHANGED <<inputs, ac, strat, rep, kick, done, asyncVars, popLog, start>>

\* The while condition fails: the with block is left.
LoopExit ==
  /\ pc = "loop" /\ ~ThreadedGuard
  /\ pc' = "exit"
  /\ UNCHANGED <<inputs, tc, ac, strat, rep, threadVars, asyncVars, popLog, start>>

\* Mutant: the executor is shut down without waiting.
ShutdownNoWait == TRUE

\* ThreadPoolExecutor.__exit__ is shutdown(wait=True): it returns once every
\* submitted call has finished.
ShutdownDone == Finished = 1..Len(fut)

\* The with block is left when the shutdown returns; then crawl_threaded
\* returns.
ThreadedReturn ==
  /\ pc = "exit"
  /\ ShutdownDone
  /\ pc' = "returned"
  /\ UNCHANGED <<inputs, tc, ac, strat, rep, threadVars, asyncVars, popLog, start>>

\* ----------------------------------- fetch_and_parse on a worker thread

\* The worker's state after the href at index i has been handled.
NextHref(w) ==
  IF w.i < Len(find_all(w.html))
    THEN [w EXCEPT !.st = "parse", !.i = w.i + 1]
    ELSE [w EXCEPT !.st = "finished", !.i = 0]

\* fetch_and_parse: html = self.fetch(url); if html: enter parse.
WorkerFetch(f) ==
  /\ f \in 1..Len(fut) /\ fut[f].st = "fetch"
  /\ LET html == fetch(fut[f].url)
     IN fut' = [fut EXCEPT ![f] =
                  IF html # EmptyHtml
                    THEN NextHref([fut[f] EXCEPT !.html = html])
                    ELSE [fut[f] EXCEPT !.st = "finished"]]
  /\ UNCHANGED <<inputs, tc, ac, strat, rep, pc, nxt, kick, futures, done,
                 asyncVars, popLog, start>>

\* parse: the condition of line 59 is evaluated for the next href.
WorkerCheck(f) ==
  /\ f \in 1..Len(fut) /\ fut[f].st = "parse"
  /\ fut' = [fut EXCEPT ![f] =
               IF ParseCond(find_all(fut[f].html)[fut[f].i], tc.visited)
                 THEN [fut[f] EXCEPT !.st = "append"]
                 ELSE NextHref(fut[f])]
  /\ UNCHANGED <<inputs, tc, ac, strat, rep, pc, nxt, kick, futures, done,
                 asyncVars, popLog, start>>

\* parse: self.queue.append(href) of line 60.
WorkerAppend(f) ==
  /\ f \in 1..Len(fut) /\ fut[f].st = "append"
  /\ tc' = [tc EXCEPT !.queue = Append(@, find_all(fut[f].html)[fut[f].i])]
  /\ fut' = [fut EXCEPT ![f] = NextHref(fut[f])]
  /\ UNCHANGED <<inputs, ac, strat, rep, pc, nxt, kick, futures, done,
                 asyncVars, popLog, start>>

\* ------------------------------------------------------------ AsyncCrawler

\* A worker task: created and not yet run ("new"), suspended in fetch
\* holding a semaphore slot ("fetch"), scheduled again with the fetched html
\* ("resumed"), suspended in sem.acquire ("acquire"), woken by a release
\* ("woken"), or returned ("done").
Task(st, u, html) == [st |-> st, url |-> u, html |-> html]

\* asyncio.run(ac.crawl(concurrency)): the semaphore is created and the
\* worker tasks are created in order; gather suspends the caller.
CallCrawl ==
  /\ pc = "call" /\ strat = "crawl"
  /\ sem' = MaxWorkers
  /\ aw' = [w \in 1..MaxWorkers |-> Task("new", "", EmptyHtml)]
  /\ ready' = [w \in 1..MaxWorkers |-> w]
  /\ pc' = "gather"
  /\ popLog' = <<>>
  /\ start' = [queue |-> Len(ac.queue), pages |-> ac.pages]
  /\ UNCHANGED <<inputs, tc, ac, strat, rep, threadVars>>

\* The condition of the worker's while loop.
WorkerGuard(a) == a.pages < max_pages /\ a.queue # <<>>

\* Mutant: only non-empty content is counted, as in crawl_single.
PageCountGated(html) == IF html # EmptyHtml THEN 1 ELSE 0

\* What the worker adds to the counter for a fetched url (line 131).
PageCount(html) == 1

\* Mutant: the slot is not given back.
ReleaseLost(value) == value

\* The value of the semaphore after __aexit__ of "async with sem".
Release(value) == value + 1

\* The crawler after the part of an iteration that follows the fetch:
\* parse if the html is not empty, then the increment of pages.
AfterFetch(a, u, html) ==
  [queue |-> IF html # EmptyHtml
               THEN aparse(a.queue, u, find_all(html), a.visited)
               ELSE a.queue,
   visited |-> a.visited,
   pages |-> a.pages + PageCount(html)]

\* The tasks suspended in sem.acquire.
Waiters == {w \in 1..Len(aw) : aw[w].st = "acquire"}

\* The event loop runs the task at the head of the ready queue up to its
\* next suspension: a resumed task releases the semaphore and finishes its
\* iteration; a task at the top of the loop pops a URL, marks it visited
\* and acquires the semaphore, suspending in fetch, or returns.
WorkerRun ==
  /\ pc = "gather" /\ ready # <<>>
  /\ LET w == Head(ready)
         t == aw[w]
         resumed == t.st = "resumed"
         a1 == IF resumed THEN AfterFetch(ac, t.url, t.html) ELSE ac
         sem1 == IF resumed THEN Release(sem) ELSE sem
         wake == IF resumed /\ Waiters # {}
                   THEN <<CHOOSE x \in Waiters : \A y \in Waiters : x <= y>>
                   ELSE <<>>
         top == t.st \in {"new", "resumed"}
         go == top /\ WorkerGuard(a1)
         u == IF go THEN Head(a1.queue) ELSE t.url
         a2 == IF go
                 THEN [a1 EXCEPT !.queue = Tail(a1.queue),
                                 !.visited = a1.visited \cup {u}]
                 ELSE a1
     IN /\ ac' = a2
        /\ popLog' = IF go THEN Append(popLog, u) ELSE popLog
        /\ sem' = IF ~(top /\ ~go) /\ sem1 > 0 THEN sem1 - 1 ELSE sem1
        /\ LET mine == IF top /\ ~go THEN Task("done", "", EmptyHtml)
                        ELSE IF sem1 > 0 THEN Task("fetch", u, EmptyHtml)
                        ELSE Task("acquire", u, EmptyHtml)
           IN aw' = [x \in 1..Len(aw) |->
                       IF x = w THEN mine
                       ELSE IF wake # <<>> /\ x = wake[1]
                         THEN [aw[x] EXCEPT !.st = "woken"]
                         ELSE aw[x]]
        /\ ready' = Tail(ready) \o wake
  /\ UNCHANGED <<inputs, tc, strat, rep, pc, threadVars, start>>

\* The fetch a task is suspended in returns: the task is scheduled again.
FetchReturn(w) ==
  /\ pc = "gather" /\ w \in 1..Len(aw) /\ aw[w].st = "fetch"
  /\ aw' = [aw EXCEPT ![w] = Task("resumed", aw[w].url, fetch(aw[w].url))]
  /\ ready' = Append(ready, w)
  /\ UNCHANGED <<inputs, tc, ac, strat, rep, pc, threadVars, sem, popLog, start>>

\* gather returns when every worker has returned; crawl returns.
CrawlReturn ==
  /\ pc = "gather"
  /\ \A w \in 1..Len(aw) : aw[w].st = "done"
  /\ pc' = "returned"
  /\ UNCHANGED <<inputs, tc, ac, strat, rep, threadVars, asyncVars, popLog, start>>

\* ---------------------------------------------------------------- time_fn

\* The crawl function main hands to time_fn after this one.
NextStrat(s) == IF s = "crawl_single" THEN "crawl_threaded" ELSE "crawl"

\* time_fn appends the sample; it repeats the call, or main moves on to
\* the next strategy, or everything is over. A caller of one crawl method
\* stops after its single call.
TimeFn ==
  /\ pc = "returned" /\ entry = "main"
  /\ IF rep + 1 < Repeats
       THEN /\ rep' = rep + 1 /\ strat' = strat /\ pc' = "call"
       ELSE IF strat # "crawl"
         THEN /\ rep' = 0 /\ strat' = NextStrat(strat) /\ pc' = "call"
         ELSE /\ rep' = rep + 1 /\ strat' = strat /\ pc' = "done"
  /\ UNCHANGED <<inputs, tc, ac, threadVars, asyncVars, popLog, start>>

Next ==
  \/ CallSingle \/ SingleStep \/ SingleReturn
  \/ CallThreaded \/ KickoffPop \/ KickoffSubmit \/ Wait
  \/ (\E f \in done : Collect(f))
  \/ CollectSubmit \/ LoopExit \/ ThreadedReturn
  \/ (\E f \in 1..Len(fut) : WorkerFetch(f))
  \/ (\E f \in 1..Len(fut) : WorkerCheck(f))
  \/ (\E f \in 1..Len(fut) : WorkerAppend(f))
  \/ CallCrawl \/ WorkerRun
  \/ (\E w \in 1..Len(aw) : FetchReturn(w))
  \/ CrawlReturn
  \/ TimeFn

Spec == Init /\ [][Next]_vars

\* Every thread that can take a step eventually takes one and every fetch
\* eventually returns.
FairSpec == Spec /\ WF_vars(Next)

\* ------------------------------------------------------- notions of a run

\* The current run is the first one on its crawler object.
FreshRun == rep = 0 /\ (entry = "main" => strat # "crawl_threaded")

\* The crawl function has returned to its caller.
Returned == pc = "returned"

\* Counter, queue and visited set of the crawler of the current strategy.
Pages == IF strat = "crawl" THEN ac.pages ELSE tc.pages_crawled
Queue == IF strat = "crawl" THEN ac.queue ELSE tc.queue
Visited == IF strat = "crawl" THEN ac.visited ELSE tc.visited

\* The URLs a strategy enqueues from page u when nothing is visited yet.
LinksOf(s, u) ==
  IF s = "crawl"
    THEN {urljoin(u, h) : h \in Range(graph[u])} \cap URLs
    ELSE Range(graph[u]) \cap URLs

\* The URLs reachable from the set through the links of the pages in ok.
RECURSIVE Closure(_, _, _)
Closure(s, set, ok) ==
  LET more == set \cup UNION {LinksOf(s, u) : u \in set \cap ok}
  IN IF more = set THEN set ELSE Closure(s, more, ok)

\* The pages reachable from the seed, and those reachable through pages
\* whose fetch succeeds.
Reachable(s) == Closure(s, {seed}, URLs)
ReachableOK(s) == Closure(s, {seed}, URLs \ failing)

\* ----------------------------------------------------------------- claims

\* C1: in a run of any of the three strategies started on a fresh crawler,
\* the page counter never exceeds the budget max_pages, in every state and
\* when the run returns.
C1_BudgetBound == FreshRun => Pages <= max_pages

\* C1 witness: a fresh worker-pool run has returned with the counter at the
\* budget while URLs were still pending.
C1_Witness ==
  /\ Returned /\ FreshRun /\ strat = "crawl_threaded"
  /\ tc.pages_crawled = max_pages /\ tc.queue # <<>>

\* C2: within one run on a fresh crawler no URL is popped from the queue
\* more than once.
C2_NoUrlPoppedTwice ==
  FreshRun =>
    \A i, j \in 1..Len(popLog) : i # j => popLog[i] # popLog[j]

\* C3: when every fetch succeeds and the pages reachable from the seed are
\* fewer than the budget, a run on a fresh crawler returns with the counter
\* equal to the number of distinct reachable pages.
C3_CountEqualsReachable ==
  (Returned /\ FreshRun /\ failing = {}
     /\ Cardinality(Reachable(strat)) < max_pages)
  => Pages = Cardinality(Reachable(strat))

\* C4: every run the benchmark starts begins on fresh state: the queue holds
\* exactly the seed, the visited set is empty and the counter is zero.
C4_FreshAtEveryCall ==
  pc = "call" =>
    IF strat = "crawl" THEN ac = AsyncCrawlerInit ELSE tc = ThreadedCrawlerInit

\* C5: in a worker-pool run on a fresh crawler, pages_crawled counts exactly
\* the collected operations whose fetch returned non-empty content.
C5_ThreadedCountsSuccesses ==
  (strat = "crawl_threaded" /\ FreshRun) =>
    tc.pages_crawled =
      Cardinality({f \in 1..Len(fut) :
                     f \notin Range(futures) /\ fut[f].html # EmptyHtml})
\* The worker tasks that have popped a URL and not yet counted it.
Uncounted ==
  {w \in 1..Len(aw) : aw[w].st \in {"fetch", "resumed", "acquire", "woken"}}

\* A step of the cooperative strategy that appends to the queue.
AsyncPush ==
  /\ strat = "crawl"
  /\ Len(ac'.queue) + (Len(popLog') - Len(popLog)) > Len(ac.queue)

\* C6: in a cooperative run on a fresh crawler every popped URL adds exactly
\* one to pages once its fetch has returned, empty content or not, so that
\* the counter at return equals the number of URLs popped in the run; and
\* links are appended only by a worker whose fetched content is non-empty.
C6_AsyncCountsEveryPop ==
  /\ []((strat = "crawl" /\ FreshRun /\ pc \in {"gather", "returned"}) =>
          /\ ac.pages + Cardinality(Uncounted) = Len(popLog)
          /\ (Returned => ac.pages = Len(popLog)))
  /\ [][AsyncPush =>
          /\ ready # <<>>
          /\ aw[Head(ready)].st = "resumed"
          /\ aw[Head(ready)].html # EmptyHtml]_vars

\* C6 witness: a fresh cooperative run has returned after popping a URL whose
\* fetch failed and one whose fetch succeeded.
C6_Witness ==
  /\ Returned /\ strat = "crawl" /\ FreshRun
  /\ \E i, j \in 1..Len(popLog) :
       popLog[i] \in failing /\ popLog[j] \notin failing
  /\ ac.pages = Len(popLog)

\* C7: a run on a fresh crawler that returns before the budget is reached
\* has popped every URL reachable from the seed through pages whose fetch
\* succeeds, whatever URLs fail.
C7_FailureDoesNotStopCrawl ==
  (Returned /\ FreshRun /\ Pages < max_pages)
  => ReachableOK(strat) \subseteq Visited

\* C7 witness: a fresh run has returned below the budget after a failed fetch
\* that was followed by the fetch of another URL.
C7_Witness ==
  /\ Returned /\ FreshRun /\ Pages < max_pages
  /\ \E i, j \in 1..Len(popLog) :
       i < j /\ popLog[i] \in failing /\ popLog[j] \notin failing

\* The operations submitted to the pool that are still running.
InFlight == {f \in 1..Len(fut) : fut[f].st # "finished"}

\* C8: in the worker-pool strategy the futures list, and with it the number
\* of operations in flight, never exceeds max_workers, whatever the length
\* of the queue the run starts with.
C8_PoolBounded ==
  /\ Len(futures) <= MaxWorkers
  /\ InFlight \subseteq Range(futures)

\* C8 witness: the kickoff has filled the pool while the queue it started
\* from still holds URLs.
C8_Witness ==
  /\ strat = "crawl_threaded" /\ pc = "loop"
  /\ Len(futures) = MaxWorkers /\ Cardinality(InFlight) = MaxWorkers
  /\ Len(popLog) = MaxWorkers /\ tc.queue # <<>>

\* The worker tasks between acquiring and releasing the semaphore.
Holding == {w \in 1..Len(aw) : aw[w].st \in {"fetch", "resumed"}}

\* C9: in the cooperative strategy the tasks holding a semaphore slot never
\* exceed the concurrency parameter, the semaphore's value accounts for each
\* of them, and when crawl returns every slot has been released.
C9_SemaphoreBound ==
  (strat = "crawl" /\ pc \in {"gather", "returned"}) =>
    /\ Cardinality(Holding) <= MaxWorkers
    /\ sem = MaxWorkers - Cardinality(Holding)
    /\ (Returned => sem = MaxWorkers)

\* C9 witness: crawl has returned after at least two acquisitions.
C9_Witness ==
  /\ Returned /\ strat = "crawl" /\ Len(popLog) >= 2 /\ sem = MaxWorkers

\* No submitted operation and no worker task is still running.
NothingInFlight ==
  IF strat = "crawl"
    THEN \A w \in 1..Len(aw) : aw[w].st = "done"
    ELSE InFlight = {}

\* C10: every run that is started eventually returns, and when it returns
\* the counter has reached the budget or the queue is empty with nothing in
\* flight.
C10_RunsReturn ==
  /\ (pc = "call") ~> Returned
  /\ [](Returned => (Pages >= max_pages \/ (Queue = <<>> /\ NothingInFlight)))

\* C10 witness: the run on the self-loop graph a -> [a, b] has returned below
\* the budget with an empty queue after crawling a and b once each.
C10_Witness ==
  /\ Returned /\ graph = GraphSelfLoop /\ failing = {}
  /\ Pages = 2 /\ Pages < max_pages /\ Queue = <<>> /\ popLog = <<"a", "b">>
\* crawl_single run to its end on crawler c, as a function of the inputs.
RECURSIVE SingleRun(_)
SingleRun(c) ==
  IF c.queue # <<>> /\ c.pages_crawled < max_pages
    THEN SingleRun(SingleBody([c EXCEPT !.queue = Tail(c.queue),
                                        !.visited = c.visited \cup {Head(c.queue)}],
                              fetch(Head(c.queue))))
    ELSE c

\* C11: when every fetch succeeds, a run of any strategy on a fresh crawler
\* returns with the counter the sequential strategy ends with on the same
\* seed, budget and pages, so the three strategies end with the same counter.
C11_SameFinalCounter ==
  (Returned /\ FreshRun /\ failing = {})
  => Pages = SingleRun(ThreadedCrawlerInit).pages_crawled
\* C12: in a worker-pool run on a fresh crawler, a URL is popped for dispatch
\* after a completion only while the counter, the completion counted, is
\* below the budget: once pages_crawled >= max_pages nothing more is popped
\* or submitted.
C12_DispatchOnlyBelowBudget ==
  (strat = "crawl_threaded" /\ FreshRun /\ pc = "for_add")
  => tc.pages_crawled < max_pages
\* The worker-pool run has reached the budget and is leaving its loop.
BudgetReached ==
  /\ strat = "crawl_threaded" /\ pc \in {"loop", "exit"}
  /\ tc.pages_crawled >= max_pages

\* Every link found by an operation of this run whose fetch succeeded is
\* in the queue unless its URL is visited.
LinksKept ==
  \A f \in 1..Len(fut) :
    fut[f].html # EmptyHtml =>
      LinksOf("crawl_threaded", fut[f].html) \subseteq
        (tc.visited \cup Range(tc.queue))

MidPush == {f \in 1..Len(fut) : fut[f].st = "append"}

\* The calling thread is between its popleft and the visited.add of the
\* popped URL.
MidPop == pc \in {"kick_add", "for_add"}

\* C14: in the worker-pool strategy the accesses to the queue, the visited
\* set and the counter exclude one another: at most one thread at a time is
\* inside a push or inside the calling thread's pop and visited-mark.
C14_MutualExclusion ==
  strat = "crawl_threaded" =>
    Cardinality(MidPush) + (IF MidPop THEN 1 ELSE 0) <= 1
\* C15: in a worker-pool run on a fresh crawler at most one operation is in
\* flight and the futures list holds at most one future, whatever
\* max_workers is.
C15_FreshPoolOfOne ==
  (strat = "crawl_threaded" /\ FreshRun) =>
    /\ Cardinality(InFlight) <= 1
    /\ Len(futures) <= 1

\* C15 witness: in a fresh worker-pool run one operation is in flight while
\* the queue holds URLs the pool has room for.
C15_Witness ==
  /\ strat = "crawl_threaded" /\ FreshRun /\ pc = "loop"
  /\ Cardinality(InFlight) = 1 /\ Len(futures) < MaxWorkers
  /\ tc.queue # <<>> /\ tc.pages_crawled < max_pages

\* The worker tasks that have popped a URL in this run.
Poppers == {w \in 1..Len(aw) : aw[w].st \notin {"new", "done"}}

\* C16: in a cooperative run on a fresh crawler only the first worker task
\* ever pops a URL: every other task is not yet started or has returned
\* without a fetch, and at most one fetch is in flight.
C16_FreshSingleWorker ==
  (strat = "crawl" /\ FreshRun /\ pc \in {"gather", "returned"}) =>
    /\ Poppers \subseteq {1}
    /\ Cardinality(Holding) <= 1
    /\ (Len(popLog) > 0 => aw[1].st # "new")
    /\ (Len(ready) = 0 => \A w \in 2..Len(aw) : aw[w].st = "done")

\* C16 witness: the first worker is fetching its second URL with URLs still
\* queued, and every other worker has returned.
C16_Witness ==
  /\ strat = "crawl" /\ FreshRun /\ pc = "gather"
  /\ aw[1].st = "fetch" /\ Len(popLog) = 2 /\ ac.queue # <<>>
  /\ \A w \in 2..Len(aw) : aw[w].st = "done"
\* The queue a step pops from: a resumed cooperative task first completes
\* the iteration it was suspended in, then tests and pops.
PopFrom ==
  IF strat = "crawl" /\ pc = "gather" /\ ready # <<>>
       /\ aw[Head(ready)].st = "resumed"
    THEN AfterFetch(ac, aw[Head(ready)].url, aw[Head(ready)].html).queue
    ELSE Queue

\* C17: no popleft meets an empty queue: the kickoff iterations still to run
\* never exceed the queue's length, whatever the workers append meanwhile,
\* and every step that pops finds the queue it pops from non-empty and takes
\* its head.
C17_NoPopFromEmptyQueue ==
  /\ [](pc = "kickoff" => (kick >= 1 /\ kick <= Len(tc.queue)))
  /\ [][Len(popLog') > Len(popLog) =>
          /\ PopFrom # <<>>
          /\ popLog' = Append(popLog, Head(PopFrom))]_vars

\* C17 witness: the kickoff is about to pop the last URL of the queue while
\* a worker it has submitted is running.
C17_Witness ==
  /\ pc = "kickoff" /\ kick = 1 /\ Len(tc.queue) = 1
  /\ Len(popLog) = 1 /\ InFlight # {}

\* Number of occurrences of u in a queue.
RECURSIVE Count(_, _)
Count(u, queue) ==
  IF queue = <<>> THEN 0
  ELSE (IF Head(queue) = u THEN 1 ELSE 0) + Count(u, Tail(queue))

\* C18: in a run on a fresh crawler the visited set only grows and no step
\* adds to the queue a copy of a visited URL. (A cooperative task's step
\* ends one iteration and starts the next, so there the URLs are those
\* visited before the step.)
C18_VisitedNeverReenqueued ==
  [][(FreshRun /\ strat' = strat /\ pc # "call") =>
       /\ Visited \subseteq Visited'
       /\ \A u \in (IF strat = "crawl" THEN Visited ELSE Visited') :
            Count(u, Queue') <= Count(u, Queue)]_vars

\* C18 witness: in a fresh run a URL has been popped twice, through copies
\* enqueued before its first pop, and no copy of it is left in the queue.
C18_Witness ==
  /\ FreshRun
  /\ \E i, j \in 1..Len(popLog) :
       /\ i < j /\ popLog[i] = popLog[j]
       /\ popLog[i] \in Visited /\ Count(popLog[i], Queue) = 0
       /\ popLog[i] \in Range(graph[popLog[i]])

\* C19: a crawl_threaded call that starts at or above the budget on a
\* non-empty queue pops and submits min(len(queue), max_workers) operations,
\* returns only when they have finished, and leaves pages_crawled unchanged.
C19_ThreadedAtBudget ==
  (strat = "crawl_threaded" /\ pc \notin {"call", "done"}
     /\ start.pages >= max_pages /\ start.queue > 0)
  => /\ tc.pages_crawled = start.pages
     /\ Len(fut) + kick = Min(start.queue, MaxWorkers)
     /\ Len(popLog) = Len(fut) + (IF pc = "kick_add" THEN 1 ELSE 0)
     /\ (Returned => (kick = 0 /\ InFlight = {}))

\* C19 witness: a call that started at the budget on a queue longer than
\* max_workers has returned after max_workers operations.
C19_Witness ==
  /\ Returned /\ strat = "crawl_threaded"
  /\ start.pages >= max_pages /\ start.queue > MaxWorkers
  /\ Len(fut) = MaxWorkers /\ tc.pages_crawled = start.pages
====
